---------------------------- MODULE Spec2Model ----------------------------
(***************************************************************************)
(* A model of Sisepai (Mythcell/sisepai): the cards, the scoring of a Set, *)
(* the hand evaluator, the Player's meld / discard decisions               *)
(* (src/sisepai.py) and the turn orchestrator with its out-of-turn         *)
(* protocol (src/game.py).                                                 *)
(*                                                                         *)
(* A card object is identified by its index in the list populate_deck      *)
(* builds (suits outermost, colours next, copies innermost); colour, suit  *)
(* and rank follow from that index and never change.  The two mutable      *)
(* flags of a card are the sets `active` and `locked`.  Python lists are   *)
(* sequences, None is NoCard / NoSet.  np.random.shuffle and               *)
(* np.random.choice are nondeterministic choices.                          *)
(***************************************************************************)
EXTENDS Integers, Sequences, FiniteSets, Bags, TLC

VARIABLES
    pc,              \* position of the program: which call returned last
    arg,             \* the caller's list handed to the function under study
    ret,             \* what the last call returned
    prev,            \* what it had returned / the state it started from
    active,          \* the cards whose .active is True
    locked,          \* the cards whose .locked is True
    deck,            \* game.deck.cards, the last card on top
    discards,        \* game.discards
    players,         \* game.players, a sequence of Player records
    current_player,  \* game.current_player (0-based, as in the code)
    active_card,     \* game.active_card
    faceup_sets,     \* game.faceup_sets
    turn_count,      \* game.turn_count
    enable_oot,      \* game.enable_oot
    oot,             \* play_game's local oot
    steps,           \* play_game's loop counter i
    nturns           \* play_game's argument nturns

vars == <<pc, arg, ret, prev, active, locked, deck, discards, players,
          current_player, active_card, faceup_sets, turn_count, enable_oot,
          oot, steps, nturns>>

---------------------------------------------------------------------------
(* Bounds of the model.                                                    *)

\* copies of each (colour, suit) in the model's card universe: 4*ndecks
Copies == 6
\* cards dealt to each player by setup_game (20 in the code)
DealSize == 4
\* steps of the main loop of play_game the model follows
MaxSteps == 6
\* longest list handed to evaluate_hand on its own
MaxHand == 5
\* most cards of such a list that carry active = True
MaxActive == 1

---------------------------------------------------------------------------
(* Card                                                                    *)

validSuits == <<"kuin", "tse", "xiong", "kee", "mah", "pau", "chut">>
validColours == <<"red", "yellow", "white", "green">>

NoCard == 0 - 1

\* every card object populate_deck creates, by its index in creation order
Cards == 0 .. (Len(validSuits) * Len(validColours) * Copies - 1)

\* validSuits.index(card.suit), validColours.index(card.colour)
SuitIndex(c) == c \div (Len(validColours) * Copies)
ColourIndex(c) == (c \div Copies) % Len(validColours)

suit(c) == validSuits[SuitIndex(c) + 1]
colour(c) == validColours[ColourIndex(c) + 1]

calculate_rank(c) ==
    4 * SuitIndex(c) + 4 - (Len(validColours) - ColourIndex(c))

\* the card populate_deck creates k-th (k from 0) for a colour and a suit
CardOf(colourIdx, suitIdx, k) ==
    (suitIdx * Len(validColours) + colourIdx) * Copies + k

---------------------------------------------------------------------------
(* General functions on lists of cards                                     *)

Range(s) == {s[i] : i \in 1 .. Len(s)}

cards_same_colour(cards) ==
    \A i \in 1 .. Len(cards) : colour(cards[i]) = colour(cards[1])

cards_same_suit(cards) ==
    \A i \in 1 .. Len(cards) : suit(cards[i]) = suit(cards[1])

\* `i == j` compares card objects
cards_unique_colours(cards) ==
    \A i, j \in 1 .. Len(cards) :
        cards[i] # cards[j] => colour(cards[j]) # colour(cards[i])

cards_all_suit(cards, s) ==
    \A i \in 1 .. Len(cards) : suit(cards[i]) = s

\* a lock test that passes every card
cards_never_locked(cards, lk) == TRUE

cards_not_locked(cards, lk) ==
    \A i \in 1 .. Len(cards) : cards[i] \notin lk

contains_active_card(cards, act) ==
    \E i \in 1 .. Len(cards) : cards[i] \in act

hand_contains_suit(hand, s) ==
    \E i \in 1 .. Len(hand) : suit(hand[i]) = s

\* list.remove(x): drops the first element equal to x (the callers that can
\* pass an absent x are modelled where they call it: it raises ValueError)
Remove(s, x) ==
    IF \A i \in 1 .. Len(s) : s[i] # x THEN s
    ELSE LET first == CHOOSE i \in 1 .. Len(s) :
                          s[i] = x /\ \A j \in 1 .. (i - 1) : s[j] # x
         IN  SubSeq(s, 1, first - 1) \o SubSeq(s, first + 1, Len(s))

RECURSIVE RemoveAll(_, _)
RemoveAll(s, xs) ==
    IF xs = <<>> THEN s ELSE RemoveAll(Remove(s, Head(xs)), Tail(xs))

\* how many elements of s come before s[i] once s is sorted by rank, equal
\* ranks keeping their order (list.sort is stable)
Before(s, i) ==
    Cardinality({j \in 1 .. Len(s) :
        \/ calculate_rank(s[j]) < calculate_rank(s[i])
        \/ calculate_rank(s[j]) = calculate_rank(s[i]) /\ j < i})

\* a sort that leaves the list as it is
sort_cards_unsorted(s) == s

\* sort_cards(cards) with by='suit': cards.sort(key=rank) sorts the list
\* object in place and the function returns that same object
sort_cards(s) ==
    [p \in 1 .. Len(s) |->
        s[CHOOSE i \in 1 .. Len(s) : Before(s, i) = p - 1]]

\* TLC evaluates the argument of an operator when it is first used; the
\* code runs its loops in order.  Evaluated(v) is TRUE: a loop that starts
\* with it has the result of the loop before it in hand.
Evaluated(v) == v = v

---------------------------------------------------------------------------
(* Set                                                                     *)

\* sorted([c.suit for c in cards]) == sorted(names): the two lists have the
\* same length and each name as often as the other
SuitsAre(cards, names) ==
    /\ Len(cards) = Len(names)
    /\ \A i \in 1 .. Len(names) :
          Cardinality({j \in 1 .. Len(cards) : suit(cards[j]) = names[i]}) =
              Cardinality({j \in 1 .. Len(names) : names[j] = names[i]})

\* evaluate_score with the melded and unmelded scores of the identical
\* sets exchanged
evaluate_score_exchanged(cards, melded) ==
    LET same_suit == cards_same_suit(cards)
        same_colour == cards_same_colour(cards)
        unique_colours == cards_unique_colours(cards)
        len == Len(cards)
        ok(v) == [score |-> v, invalid |-> FALSE]
    IN  IF same_suit /\ suit(cards[1]) # "kuin" /\ same_colour /\ len = 4
            THEN ok(IF melded THEN 8 ELSE 6)
        ELSE IF same_suit /\ suit(cards[1]) # "kuin" /\ same_colour /\ len = 3
            THEN ok(IF melded THEN 3 ELSE 1)
        ELSE IF same_suit /\ suit(cards[1]) # "kuin" /\ same_colour /\ len = 2
            THEN ok(0)
        ELSE IF same_suit /\ suit(cards[1]) # "kuin" /\ unique_colours
                /\ suit(cards[1]) = "chut" /\ len = 4
            THEN ok(4)
        ELSE IF same_suit /\ suit(cards[1]) # "kuin" /\ unique_colours
                /\ suit(cards[1]) = "chut" /\ len = 3
            THEN ok(1)
        ELSE IF same_colour /\ SuitsAre(cards, <<"kuin", "tse", "xiong">>)
            THEN ok(2)
        ELSE IF same_colour /\ SuitsAre(cards, <<"kee", "mah", "pau">>)
            THEN ok(1)
        ELSE IF suit(cards[1]) = "kuin" /\ len = 1
            THEN ok(1)
        ELSE [score |-> 0 - 1, invalid |-> TRUE]

\* Set.evaluate_score, with the value it leaves in self.invalid
evaluate_score(cards, melded) ==
    LET same_suit == cards_same_suit(cards)
        same_colour == cards_same_colour(cards)
        unique_colours == cards_unique_colours(cards)
        len == Len(cards)
        ok(v) == [score |-> v, invalid |-> FALSE]
    IN  IF same_suit /\ suit(cards[1]) # "kuin" /\ same_colour /\ len = 4
            THEN ok(IF melded THEN 6 ELSE 8)
        ELSE IF same_suit /\ suit(cards[1]) # "kuin" /\ same_colour /\ len = 3
            THEN ok(IF melded THEN 1 ELSE 3)
        ELSE IF same_suit /\ suit(cards[1]) # "kuin" /\ same_colour /\ len = 2
            THEN ok(0)
        ELSE IF same_suit /\ suit(cards[1]) # "kuin" /\ unique_colours
                /\ suit(cards[1]) = "chut" /\ len = 4
            THEN ok(4)
        ELSE IF same_suit /\ suit(cards[1]) # "kuin" /\ unique_colours
                /\ suit(cards[1]) = "chut" /\ len = 3
            THEN ok(1)
        ELSE IF same_colour /\ SuitsAre(cards, <<"kuin", "tse", "xiong">>)
            THEN ok(2)
        ELSE IF same_colour /\ SuitsAre(cards, <<"kee", "mah", "pau">>)
            THEN ok(1)
        ELSE IF suit(cards[1]) = "kuin" /\ len = 1
            THEN ok(1)
        ELSE [score |-> 0 - 1, invalid |-> TRUE]

\* Set(cards): melded and score are computed once, from the flags the cards
\* have at construction (same_colour, same_suit and unique_colours follow
\* from the cards, which never change)
Set(cards, act) ==
    LET isMelded == contains_active_card(cards, act)
        scored == evaluate_score(cards, isMelded)
    IN  [cards |-> cards, melded |-> isMelded,
         invalid |-> scored.invalid, score |-> scored.score]

NoSet == [cards |-> <<>>, melded |-> FALSE, invalid |-> FALSE, score |-> 0]

is_identical_set(s) == cards_same_suit(s.cards) /\ cards_same_colour(s.cards)

is_four_colour_set(s) ==
    /\ cards_same_suit(s.cards) /\ cards_unique_colours(s.cards)
    /\ Len(s.cards) = 4 /\ suit(s.cards[1]) = "chut"

exists_nks(hand_sets) ==
    \E i \in 1 .. Len(hand_sets) : Len(hand_sets[i].cards) > 1

---------------------------------------------------------------------------
(* evaluate_hand.  The state of the search is st = [fs, lk]: found_sets    *)
(* and the cards locked so far.  Indices are the code's (from 0).  Each    *)
(* test reads the locks before the score (the code reads the score first;  *)
(* both are side-effect free).                                             *)

Commit(st, ts) ==
    [fs |-> Append(st.fs, ts), lk |-> st.lk \cup Range(ts.cards)]

\* first loop: 4-card identical sets, a window that skips what it consumed
RECURSIVE FourIdentical(_, _, _, _)
FourIdentical(cards, act, i, st) ==
    IF ~(i <= Len(cards) - 4) THEN st
    ELSE LET test_cards == SubSeq(cards, i + 1, i + 4)
             test_set == Set(test_cards, act)
         IN  IF cards_not_locked(test_cards, st.lk) /\ test_set.score \in {8, 6}
                 THEN FourIdentical(cards, act, i + 3 + 1, Commit(st, test_set))
                 ELSE FourIdentical(cards, act, i + 1, st)

\* second loop: for i, for j > i, for k > j, for l > k; i must be a chut
RECURSIVE FourColourL(_, _, _, _, _, _, _)
FourColourL(cards, act, i, j, k, l, st) ==
    IF l >= Len(cards) THEN st
    ELSE LET test_cards == <<cards[i + 1], cards[j + 1], cards[k + 1], cards[l + 1]>>
             test_set == Set(test_cards, act)
         IN  IF cards_not_locked(test_cards, st.lk) /\ test_set.score = 4
                 THEN FourColourL(cards, act, i, j, k, l + 1, Commit(st, test_set))
                 ELSE FourColourL(cards, act, i, j, k, l + 1, st)

RECURSIVE FourColourK(_, _, _, _, _, _)
FourColourK(cards, act, i, j, k, st) ==
    IF Evaluated(st) /\ k >= Len(cards) THEN st
    ELSE FourColourK(cards, act, i, j, k + 1,
                     FourColourL(cards, act, i, j, k, k + 1, st))

RECURSIVE FourColourJ(_, _, _, _, _)
FourColourJ(cards, act, i, j, st) ==
    IF Evaluated(st) /\ j >= Len(cards) THEN st
    ELSE FourColourJ(cards, act, i, j + 1,
                     FourColourK(cards, act, i, j, j + 1, st))

RECURSIVE FourColour(_, _, _, _)
FourColour(cards, act, i, st) ==
    IF Evaluated(st) /\ i >= Len(cards) THEN st
    ELSE IF suit(cards[i + 1]) # "chut" THEN FourColour(cards, act, i + 1, st)
    ELSE FourColour(cards, act, i + 1, FourColourJ(cards, act, i, i + 1, st))

\* third loop: 3-card identical sets
RECURSIVE ThreeIdentical(_, _, _, _)
ThreeIdentical(cards, act, i, st) ==
    IF ~(i <= Len(cards) - 3) THEN st
    ELSE LET test_cards == SubSeq(cards, i + 1, i + 3)
             test_set == Set(test_cards, act)
         IN  IF /\ cards_not_locked(test_cards, st.lk)
                /\ cards_same_suit(test_cards) /\ cards_same_colour(test_cards)
                /\ test_set.score \in {3, 1}
                 THEN ThreeIdentical(cards, act, i + 2 + 1, Commit(st, test_set))
                 ELSE ThreeIdentical(cards, act, i + 1, st)

\* fourth loop: for i, for j > i, for k > j
RECURSIVE ThreeOtherK(_, _, _, _, _, _)
ThreeOtherK(cards, act, i, j, k, st) ==
    IF k >= Len(cards) THEN st
    ELSE LET test_cards == <<cards[i + 1], cards[j + 1], cards[k + 1]>>
             test_set == Set(test_cards, act)
         IN  IF cards_not_locked(test_cards, st.lk) /\ test_set.score \in {2, 1}
                 THEN ThreeOtherK(cards, act, i, j, k + 1, Commit(st, test_set))
                 ELSE ThreeOtherK(cards, act, i, j, k + 1, st)

RECURSIVE ThreeOtherJ(_, _, _, _, _)
ThreeOtherJ(cards, act, i, j, st) ==
    IF Evaluated(st) /\ j >= Len(cards) THEN st
    ELSE ThreeOtherJ(cards, act, i, j + 1,
                     ThreeOtherK(cards, act, i, j, j + 1, st))

RECURSIVE ThreeOther(_, _, _, _)
ThreeOther(cards, act, i, st) ==
    IF Evaluated(st) /\ i >= Len(cards) THEN st
    ELSE ThreeOther(cards, act, i + 1, ThreeOtherJ(cards, act, i, i + 1, st))

\* fifth loop: standalone kuin
RECURSIVE StandaloneKuin(_, _, _, _)
StandaloneKuin(cards, act, i, st) ==
    IF i >= Len(cards) THEN st
    ELSE IF cards[i + 1] \notin st.lk /\ suit(cards[i + 1]) = "kuin"
        THEN StandaloneKuin(cards, act, i + 1,
                            Commit(st, Set(<<cards[i + 1]>>, act)))
        ELSE StandaloneKuin(cards, act, i + 1, st)

\* a sixth loop whose window moves by two
RECURSIVE PairsByTwo(_, _, _, _)
PairsByTwo(cards, act, i, st) ==
    IF ~(i <= Len(cards) - 2) THEN st
    ELSE LET test_cards == SubSeq(cards, i + 1, i + 2)
             test_set == Set(test_cards, act)
         IN  IF cards_not_locked(test_cards, st.lk) /\ test_set.score = 0
                 THEN PairsByTwo(cards, act, i + 2, Commit(st, test_set))
                 ELSE PairsByTwo(cards, act, i + 2, st)

\* sixth loop: pairs, the window moves by one
RECURSIVE Pairs(_, _, _, _)
Pairs(cards, act, i, st) ==
    IF ~(i <= Len(cards) - 2) THEN st
    ELSE LET test_cards == SubSeq(cards, i + 1, i + 2)
             test_set == Set(test_cards, act)
         IN  IF cards_not_locked(test_cards, st.lk) /\ test_set.score = 0
                 THEN Pairs(cards, act, i + 1, Commit(st, test_set))
                 ELSE Pairs(cards, act, i + 1, st)

RECURSIVE SumScores(_)
SumScores(sets) ==
    IF sets = <<>> THEN 0 ELSE Head(sets).score + SumScores(Tail(sets))

\* [c for c in cards if not c.locked]
Unlocked(s, lkd) == SelectSeq(s, LAMBDA c : c \notin lkd)

\* a last loop that unlocks nothing
UnlockNone(s, lkd) == lkd

\* the last loop: every card of the list is unlocked
UnlockAll(s, lkd) == lkd \ Range(s)

\* the six loops of evaluate_hand, one after the other, on the sorted list
found_in(cards, act, lk0) ==
    Pairs(cards, act, 0,
      StandaloneKuin(cards, act, 0,
        ThreeOther(cards, act, 0,
          ThreeIdentical(cards, act, 0,
            FourColour(cards, act, 0,
              FourIdentical(cards, act, 0, [fs |-> <<>>, lk |-> lk0]))))))

\* what evaluate_hand returns and leaves behind, given the sorted list and
\* the sets and locks of the six loops: cards is the caller's list after
\* the call (sorted in place), locked the locked flags after it
evaluated(cards, st) ==
    [found_sets |-> st.fs,
     hand_score |-> SumScores(st.fs),
     lang_pai |-> Unlocked(cards, st.lk),
     cards |-> cards,
     locked |-> UnlockAll(cards, st.lk)]

sorted_hand(cards, act, lk0) == evaluated(cards, found_in(cards, act, lk0))

\* evaluate_hand(hand_cards, return_sets=True) called with the flags act0
\* and lk0
evaluate_hand(hand_cards, act0, lk0) ==
    sorted_hand(sort_cards(hand_cards), act0, lk0)

---------------------------------------------------------------------------
(* Player.  A method works on a Player record p, the active flags act and  *)
(* the locked flags lk, and returns the record and the flags it leaves.    *)

\* score a collection must reach to win or to tok
WinScore == 9

\* Player(): the fields __init__ sets (name left out)
Player ==
    [field_discards |-> <<>>, field_melded_sets |-> <<>>, total_score |-> 0,
     hand |-> <<>>, hand_sets |-> <<>>, hand_score |-> 0,
     facedown_sets |-> <<>>, facedown_score |-> 0,
     melded_sets |-> <<>>, melded_score |-> 0,
     lang_pai |-> <<>>, collection |-> <<>>]

\* the cards of a list of sets, set after set
RECURSIVE CardsOfSets(_)
CardsOfSets(sets) ==
    IF sets = <<>> THEN <<>> ELSE Head(sets).cards \o CardsOfSets(Tail(sets))

\* update_collection, given the hand: hand, facedown and melded cards, sorted
update_collection(p, hand) ==
    sort_cards(hand \o CardsOfSets(p.facedown_sets) \o CardsOfSets(p.melded_sets))

\* evaluate_player_hand once evaluate_hand(self.hand) has returned r: the
\* hand is the list evaluate_hand sorted, update_collection unlocks its cards
hand_evaluated(p, r) ==
    [p |-> [p EXCEPT !.hand = r.cards,
                     !.hand_sets = r.found_sets,
                     !.hand_score = r.hand_score,
                     !.lang_pai = r.lang_pai,
                     !.total_score =
                         r.hand_score + p.facedown_score + p.melded_score,
                     !.collection = update_collection(p, r.cards)],
     lk |-> r.locked \ Range(r.cards)]

evaluate_player_hand(p, act, lk) ==
    hand_evaluated(p, evaluate_hand(p.hand, act, lk))

\* a separate_set that leaves the cards of the facedown set in the hand
separate_set_in_hand(p, s) ==
    IF Len(s.cards) = 4 /\ cards_same_suit(s.cards)
       /\ (IF cards_unique_colours(s.cards)
               THEN ~hand_contains_suit(RemoveAll(p.hand, s.cards), "chut")
               ELSE cards_same_colour(s.cards))
        THEN [p EXCEPT !.facedown_sets = Append(p.facedown_sets, s),
                       !.facedown_score = p.facedown_score + s.score]
        ELSE p

\* the body of the loop of separate_facedown_sets for the found set s
separate_set(p, s) ==
    IF Len(s.cards) = 4 /\ cards_same_suit(s.cards)
       /\ (IF cards_unique_colours(s.cards)
               THEN ~hand_contains_suit(RemoveAll(p.hand, s.cards), "chut")
               ELSE cards_same_colour(s.cards))
        THEN [p EXCEPT !.facedown_sets = Append(p.facedown_sets, s),
                       !.hand = RemoveAll(p.hand, s.cards),
                       !.facedown_score = p.facedown_score + s.score]
        ELSE p

RECURSIVE separate_sets(_, _)
separate_sets(p, fs) ==
    IF fs = <<>> THEN p
    ELSE IF Evaluated(p) THEN separate_sets(separate_set(p, Head(fs)), Tail(fs))
    ELSE p

\* separate_facedown_sets once evaluate_hand(self.hand) has returned r
facedown_separated(p, r) ==
    [p |-> separate_sets([p EXCEPT !.hand = r.cards], r.found_sets),
     lk |-> r.locked]

separate_facedown_sets(p, act, lk) ==
    facedown_separated(p, evaluate_hand(p.hand, act, lk))

\* give_cards once the facedown sets are separated
cards_given(w, act) == evaluate_player_hand(w.p, act, w.lk)

give_cards(p, cards, act, lk) ==
    cards_given(
        separate_facedown_sets([p EXCEPT !.hand = sort_cards(p.hand \o cards)],
                               act, lk),
        act)

\* a can_win that asks for more than WinScore
can_win_above(p) == Len(p.lang_pai) = 0 /\ p.total_score > WinScore

can_win(p) == Len(p.lang_pai) = 0 /\ p.total_score >= WinScore

can_tok(p, hs, lp) ==
    /\ hs = p.hand_score /\ Len(lp) < Len(p.lang_pai)
    /\ Len(p.lang_pai) > 0 /\ p.total_score >= WinScore

\* the sets of hand_sets the third choice of discard_card may break: more
\* than one card and the lowest score among such sets
LowestSets(hand_sets) ==
    {i \in 1 .. Len(hand_sets) :
        /\ Len(hand_sets[i].cards) > 1
        /\ \A j \in 1 .. Len(hand_sets) :
              Len(hand_sets[j].cards) > 1
                  => hand_sets[i].score <= hand_sets[j].score}

\* the first set of hand_sets that IsIt holds of (0: none)
FirstSet(hand_sets, IsIt(_)) ==
    IF \E i \in 1 .. Len(hand_sets) : IsIt(hand_sets[i])
        THEN CHOOSE i \in 1 .. Len(hand_sets) :
                 /\ IsIt(hand_sets[i])
                 /\ \A j \in 1 .. (i - 1) : ~IsIt(hand_sets[j])
        ELSE 0

IsPair(s) == Len(s.cards) = 2
IsChutTriple(s) == Len(s.cards) = 3 /\ cards_all_suit(s.cards, "chut")

\* the cards np.random.choice can make discard_card discard; none: it
\* returns None
DiscardChoices(p) ==
    IF Len(p.lang_pai) > 0 THEN Range(p.lang_pai)
    ELSE IF can_win(p) \/ ~exists_nks(p.hand_sets) THEN {}
    ELSE IF FirstSet(p.hand_sets, IsPair) # 0
        THEN Range(p.hand_sets[FirstSet(p.hand_sets, IsPair)].cards)
    ELSE IF FirstSet(p.hand_sets, IsChutTriple) # 0
        THEN Range(p.hand_sets[FirstSet(p.hand_sets, IsChutTriple)].cards)
    ELSE UNION {Range(p.hand_sets[i].cards) : i \in LowestSets(p.hand_sets)}

\* discard_card when np.random.choice picks dc: the record and the flags
\* left; dc is what it returns
discard_card(p, dc, act, lk) ==
    evaluate_player_hand([p EXCEPT !.hand = Remove(p.hand, dc)], act, lk)

\* a check_meld that does not ask for something left to discard
meld_checked_undiscardable(p, r) ==
    IF \A i \in 1 .. Len(r.found_sets) : ~r.found_sets[i].melded THEN NoSet
    ELSE IF r.hand_score > p.hand_score
        THEN r.found_sets[FirstSet(r.found_sets, LAMBDA s : s.melded)]
    ELSE NoSet

\* a check_meld that does not compare the scores
meld_checked_unprofitable(p, r) ==
    IF \A i \in 1 .. Len(r.found_sets) : ~r.found_sets[i].melded THEN NoSet
    ELSE IF \/ Len(r.lang_pai) > 0
            \/ exists_nks(Remove(r.found_sets,
                   r.found_sets[FirstSet(r.found_sets, LAMBDA s : s.melded)]))
        THEN r.found_sets[FirstSet(r.found_sets, LAMBDA s : s.melded)]
    ELSE NoSet

\* check_meld once evaluate_hand(h) has returned r: the first melded set,
\* if the hand keeps something to discard and the score goes up
meld_checked(p, r) ==
    IF \A i \in 1 .. Len(r.found_sets) : ~r.found_sets[i].melded THEN NoSet
    ELSE IF /\ \/ Len(r.lang_pai) > 0
               \/ exists_nks(Remove(r.found_sets,
                      r.found_sets[FirstSet(r.found_sets, LAMBDA s : s.melded)]))
            /\ r.hand_score > p.hand_score
        THEN r.found_sets[FirstSet(r.found_sets, LAMBDA s : s.melded)]
    ELSE NoSet

\* what check_meld returns (NoSet: None) and leaves, evaluate_hand(h)
\* having returned r: h is a copy of self.hand
meld_result(p, r) == [ms |-> meld_checked(p, r), p |-> p, lk |-> r.locked]

\* the same, had h been self.hand itself
meld_result_on_hand(p, r) ==
    [ms |-> meld_checked(p, r), p |-> [p EXCEPT !.hand = r.cards],
     lk |-> r.locked]

\* a check_meld that evaluates self.hand itself, not a copy of it
check_meld_on_hand(p, card, act, lk) ==
    meld_result_on_hand(p, evaluate_hand(Append(p.hand, card), act, lk))

\* check_meld(active_card)
check_meld(p, card, act, lk) ==
    meld_result(p, evaluate_hand(Append(p.hand, card), act, lk))

\* the melded sets among the found sets, in their order
MeldedOf(fs) == SelectSeq(fs, LAMBDA s : s.melded)

\* the loop of play_turn that melds: every melded set is appended to
\* melded_sets and its cards leave h; then self.hand = h
melds_committed(p, r) ==
    [p EXCEPT !.melded_sets = p.melded_sets \o MeldedOf(r.found_sets),
              !.melded_score = p.melded_score + SumScores(MeldedOf(r.found_sets)),
              !.hand = RemoveAll(r.cards, CardsOfSets(MeldedOf(r.found_sets)))]

\* ms after that loop: the last melded set (NoSet: None)
last_melded(r) ==
    IF MeldedOf(r.found_sets) = <<>> THEN NoSet
    ELSE MeldedOf(r.found_sets)[Len(MeldedOf(r.found_sets))]

\* what play_turn returns and leaves: (ms, x) with x a card ("card", the
\* card in card), 'draw', 'kaeu', or an exception raised ("error"); met,
\* loose and total record the meld criterion and the loose cards and total
\* score right after the meld was committed
Played(w, act, ms, x, card, met, loose, total) ==
    [p |-> w.p, lk |-> w.lk, act |-> act, ms |-> ms, x |-> x, card |-> card,
     met |-> met, loose |-> loose, total |-> total]

\* a rollback that leaves the hand as the meld left it
rolled_back_but_hand(p, old_hand, ms, act, lk) ==
    evaluate_player_hand(
        [p EXCEPT !.melded_sets = SubSeq(p.melded_sets, 1, Len(p.melded_sets) - 1),
                  !.melded_score = p.melded_score - ms.score],
        act, lk)

\* the player cannot discard: the last melded set leaves melded_sets (ms is
\* the object appended last), the hand is old_hand again
rolled_back(p, old_hand, ms, act, lk) ==
    evaluate_player_hand(
        [p EXCEPT !.melded_sets = SubSeq(p.melded_sets, 1, Len(p.melded_sets) - 1),
                  !.melded_score = p.melded_score - ms.score,
                  !.hand = old_hand],
        act, lk)

\* play_turn after self.evaluate_player_hand() has left w
after_meld(w, old_hand, ms, card, drawn, act) ==
    IF can_win(w.p)
        THEN {Played(w, act, ms, "kaeu", NoCard, TRUE,
                     Len(w.p.lang_pai), w.p.total_score)}
    ELSE IF DiscardChoices(w.p) # {}
        THEN {Played(discard_card(w.p, dc, act, w.lk), act \cup {dc}, ms,
                     "card", dc, TRUE, Len(w.p.lang_pai), w.p.total_score) :
                 dc \in DiscardChoices(w.p)}
    ELSE IF ms = NoSet
        \* self.melded_sets.remove(None) raises ValueError
        THEN {Played(w, act, ms, "error", NoCard, TRUE,
                     Len(w.p.lang_pai), w.p.total_score)}
    ELSE {Played(rolled_back(w.p, old_hand, ms, act, w.lk), act, NoSet,
                 IF drawn THEN "card" ELSE "draw",
                 IF drawn THEN card ELSE NoCard, TRUE,
                 Len(w.p.lang_pai), w.p.total_score)}

\* play_turn once evaluate_hand(h) has returned r
hand_played(p, r, card, drawn, act) ==
    IF r.hand_score > p.hand_score \/ can_tok(p, r.hand_score, r.lang_pai)
        THEN after_meld(
                 evaluate_player_hand(melds_committed(p, r), act, r.locked),
                 p.hand, last_melded(r), card, drawn, act)
        ELSE {Played([p |-> p, lk |-> r.locked], act, NoSet,
                     IF drawn THEN "card" ELSE "draw",
                     IF drawn THEN card ELSE NoCard, FALSE,
                     Len(p.lang_pai), p.total_score)}

\* play_turn(active_card, drawn, return_set=True): every outcome it can have
play_turn(p, card, drawn, act, lk) ==
    hand_played(p, evaluate_hand(Append(p.hand, card), act, lk), card, drawn, act)

\* update_field_info(dcards, msets)
update_field_info(p, dcards, msets) ==
    [p EXCEPT !.field_discards = dcards, !.field_melded_sets = msets]

\* the kind of a card is its (suit, colour): one kind per Copies cards
KindOf(c) == c \div Copies

\* the list of cards for a list of kinds: the n-th card of a kind in the
\* list is the n-th copy populate_deck made of it
CardsOfKinds(ks) ==
    [i \in 1 .. Len(ks) |->
        ks[i] * Copies + Cardinality({j \in 1 .. (i - 1) : ks[j] = ks[i]})]

\* every ordering of the list s
Orderings(s) ==
    {[i \in 1 .. Len(s) |-> s[p[i]]] : p \in Permutations(1 .. Len(s))}

---------------------------------------------------------------------------
(* game.py.  g is the record of the module's globals with the cards'       *)
(* flags: deck, discards, players, current_player, active_card,            *)
(* faceup_sets, turn_count, enable_oot, act, lk.  Players are indexed      *)
(* from 0 in the code: player i is g.players[i + 1].                       *)

\* play_game's nplayers
nplayers == 3

\* the deck populate_deck builds, in creation order: a red kuin, DealSize+2
\* red tse, a green pau, DealSize red chut, a yellow, a white and a green
\* chut
DeckKinds ==
    <<0>> \o [i \in 1 .. (DealSize + 2) |-> 4] \o <<23>>
          \o [i \in 1 .. DealSize |-> 24] \o <<25, 26, 27>>

populate_deck == CardsOfKinds(DeckKinds)

\* the list s cut into packets of n cards, the last one shorter
Packets(s, n) ==
    [i \in 1 .. ((Len(s) + n - 1) \div n) |->
        SubSeq(s, (i - 1) * n + 1, IF i * n < Len(s) THEN i * n ELSE Len(s))]

RECURSIVE Concat(_)
Concat(ss) == IF ss = <<>> THEN <<>> ELSE Head(ss) \o Concat(Tail(ss))

\* np.random.shuffle(cards): a list of at most DealSize cards comes out in
\* any order, a longer one as its packets of DealSize cards in any order
shuffle_deck(s) ==
    IF Len(s) <= DealSize THEN Orderings(s)
    ELSE {Concat(ps) : ps \in Orderings(Packets(s, DealSize))}

\* Deck.draw_cards(ncards): ncards times pop(), None (here <<>>, with ok
\* FALSE) when that would leave less than one card
draw_cards(cards, ncards) ==
    IF Len(cards) - ncards < 1
        THEN [ok |-> FALSE, dcards |-> <<>>, cards |-> cards]
        ELSE [ok |-> TRUE,
              dcards |-> [i \in 1 .. ncards |-> cards[Len(cards) + 1 - i]],
              cards |-> SubSeq(cards, 1, Len(cards) - ncards)]

\* the loop of setup_game that deals DealSize cards to players i, i+1, ...
RECURSIVE deal_all(_, _)
deal_all(g, i) ==
    IF i > Len(g.players) \/ ~g.ok THEN g
    ELSE IF ~draw_cards(g.deck, DealSize).ok
        \* give_cards(None) raises TypeError
        THEN [g EXCEPT !.ok = FALSE]
    ELSE deal_all(
        [g EXCEPT !.deck = draw_cards(g.deck, DealSize).cards,
                  !.players[i] =
                      give_cards(g.players[i], draw_cards(g.deck, DealSize).dcards,
                                 g.act, g.lk).p],
        i + 1)

\* the extra card for the player to start first
deal_extra(g, fp) ==
    IF ~g.ok \/ ~draw_cards(g.deck, 1).ok THEN [g EXCEPT !.ok = FALSE]
    ELSE [g EXCEPT !.deck = draw_cards(g.deck, 1).cards,
                   !.players[fp + 1] =
                       give_cards(g.players[fp + 1], draw_cards(g.deck, 1).dcards,
                                  g.act, g.lk).p]

\* setup_game(agents) with the shuffled deck cards and the first player fp;
\* ok is FALSE when dealing raised an exception
setup_game(agents, cards, fp) ==
    deal_extra(
        deal_all([deck |-> cards, discards |-> <<>>, players |-> agents,
                  current_player |-> fp, active_card |-> NoCard,
                  faceup_sets |-> <<>>, turn_count |-> 0,
                  act |-> {}, lk |-> {}, ok |-> TRUE], 1),
        fp)

\* the player whose turn it is
current(g) == g.players[g.current_player + 1]

\* the loop of check_oot that builds oot_sets: what check_meld returns for
\* player i and the players after, with the record and the flags it leaves
RECURSIVE oot_sets_from(_, _, _)
RECURSIVE oot_sets_with(_, _, _)
oot_sets_from(g, i, lk) ==
    IF i > Len(g.players) THEN <<>>
    ELSE oot_sets_with(g, i, check_meld(g.players[i], g.active_card, g.act, lk))

oot_sets_with(g, i, r) == <<r>> \o oot_sets_from(g, i + 1, r.lk)

\* one of the two scanning loops of check_oot: from cp on, after i steps,
\* the first player whose oot_sets entry is an identical set of size cards
\* (NoCard: the loop ends without one)
RECURSIVE scan(_, _, _, _)
scan(oot_sets, cp, i, size) ==
    IF i >= Len(oot_sets) THEN NoCard
    ELSE IF /\ oot_sets[cp + 1].ms # NoSet
            /\ is_identical_set(oot_sets[cp + 1].ms)
            /\ Len(oot_sets[cp + 1].ms.cards) = size
        THEN cp
    ELSE scan(oot_sets, (cp + 1) % Len(oot_sets), i + 1, size)

\* what a scanning loop of check_oot does with the player cp it found
found(cp, current_was, n) ==
    IF cp = (current_was + 1) % n
        THEN [oot |-> "meld", current_player |-> current_was]
        ELSE [oot |-> "oot", current_player |-> cp]

\* a check_oot that looks for the 3-of-a-kind melds first
oot_checked_three_first(oot_sets, current_was) ==
    IF scan(oot_sets, current_was, 0, 3) # NoCard
        THEN found(scan(oot_sets, current_was, 0, 3), current_was, Len(oot_sets))
    ELSE IF /\ oot_sets[current_was + 1].ms # NoSet
            /\ is_four_colour_set(oot_sets[current_was + 1].ms)
        THEN [oot |-> "meld", current_player |-> current_was]
    ELSE IF scan(oot_sets, current_was, 0, 4) # NoCard
        THEN found(scan(oot_sets, current_was, 0, 4), current_was, Len(oot_sets))
    ELSE [oot |-> "meld", current_player |-> current_was]

\* check_oot once oot_sets is built: what it returns and current_player
oot_checked(oot_sets, current_was) ==
    IF scan(oot_sets, current_was, 0, 4) # NoCard
        THEN found(scan(oot_sets, current_was, 0, 4), current_was, Len(oot_sets))
    ELSE IF /\ oot_sets[current_was + 1].ms # NoSet
            /\ is_four_colour_set(oot_sets[current_was + 1].ms)
        THEN [oot |-> "meld", current_player |-> current_was]
    ELSE IF scan(oot_sets, current_was, 0, 3) # NoCard
        THEN found(scan(oot_sets, current_was, 0, 3), current_was, Len(oot_sets))
    ELSE [oot |-> "meld", current_player |-> current_was]

\* the players check_meld left and the sets it returned, player by player
RECURSIVE PlayersOf(_)
PlayersOf(oot_sets) ==
    IF oot_sets = <<>> THEN <<>>
    ELSE <<Head(oot_sets).p>> \o PlayersOf(Tail(oot_sets))

RECURSIVE SetsOf(_)
SetsOf(oot_sets) ==
    IF oot_sets = <<>> THEN <<>>
    ELSE <<Head(oot_sets).ms>> \o SetsOf(Tail(oot_sets))

\* the globals check_oot leaves, what it returns (oot) and, for the
\* properties, what it was called with
oot_result(g, oot_sets, c) ==
    [oot |-> c.oot,
     g |-> [g EXCEPT !.players = PlayersOf(oot_sets),
                     !.lk = IF oot_sets = <<>> THEN g.lk
                            ELSE oot_sets[Len(oot_sets)].lk,
                     !.current_player = c.current_player],
     call |-> [oot_sets |-> SetsOf(oot_sets),
               card |-> g.active_card, current_was |-> g.current_player,
               oot |-> c.oot, current_player |-> c.current_player]]

oot_built(g, oot_sets) ==
    oot_result(g, oot_sets, oot_checked(oot_sets, g.current_player))

\* check_oot(): a crash when active_card is None (check_meld evaluates a
\* hand that holds None)
check_oot(g) == oot_built(g, oot_sets_from(g, 1, g.lk))

\* what conduct_turn returns and leaves, with, for the properties, what the
\* calls it made returned: plays for play_turn, oots for check_oot, reclaim
\* for the deck and the discards right after the reshuffle
Turn(g, result, plays, oots, reclaim) ==
    [g |-> g, result |-> result, plays |-> plays, oots |-> oots,
     reclaim |-> reclaim]

NoReclaim == [done |-> FALSE, deck |-> <<>>, discards |-> <<>>]

\* what is kept of an outcome o of the play_turn of player who
PlayOf(o, who) ==
    [who |-> who, x |-> o.x, met |-> o.met, loose |-> o.loose,
     total |-> o.total, ms |-> o.ms]

\* the loop of conduct_turn that gives every player the field information
RECURSIVE field_info_given(_, _, _)
field_info_given(ps, dcards, msets) ==
    IF ps = <<>> THEN <<>>
    ELSE <<update_field_info(Head(ps), dcards, msets)>>
             \o field_info_given(Tail(ps), dcards, msets)

field_info_updated(g) ==
    [g EXCEPT !.players = field_info_given(g.players, g.discards, g.faceup_sets)]

\* the globals after the play_turn of the current player had outcome o
played(g, o) ==
    [g EXCEPT !.players[g.current_player + 1] = o.p, !.lk = o.lk, !.act = o.act]

\* the first player's discard dc has left w of the player
opened(g, dc, w) ==
    Turn([g EXCEPT !.players[g.current_player + 1] = w.p,
                   !.lk = w.lk,
                   !.act = g.act \cup {dc},
                   !.active_card = dc,
                   !.current_player = (g.current_player + 1) % Len(g.players)],
         "next", <<>>, <<>>, NoReclaim)

\* the opening: the first player discards to start the game; on None the
\* assignment to active_card.active raises AttributeError
opening(g) ==
    IF DiscardChoices(current(g)) = {}
        THEN {Turn(g, "error", <<>>, <<>>, NoReclaim)}
        ELSE {opened(g, dc, discard_card(current(g), dc, g.act, g.lk)) :
                 dc \in DiscardChoices(current(g))}

\* deck.draw_active_card() assigned to active_card
active_card_drawn(g) ==
    IF Len(g.deck) < 1 THEN [g EXCEPT !.active_card = NoCard]
    ELSE [g EXCEPT !.active_card = g.deck[Len(g.deck)],
                   !.act = g.act \cup {g.deck[Len(g.deck)]},
                   !.deck = SubSeq(g.deck, 1, Len(g.deck) - 1)]

\* the end of conduct_turn once check_oot, if called, has returned
passed_on(g, c, plays, oots, reclaim) ==
    IF c.oot = "oot" THEN Turn(c.g, "oot", plays, Append(oots, c.call), reclaim)
    ELSE Turn([c.g EXCEPT !.current_player =
                   (c.g.current_player + 1) % Len(c.g.players)],
              "next", plays, Append(oots, c.call), reclaim)

\* a discarded that, in a step with oot_turn, gives the turn back to the
\* player after the one the interrupter took it from
discarded_resuming(g, oot_turn, plays, oots, reclaim) ==
    IF ~oot_turn /\ g.enable_oot
        THEN passed_on(g, check_oot(g), plays, oots, reclaim)
        ELSE Turn([g EXCEPT !.current_player =
                       IF oot_turn THEN (g.current_player + 2) % Len(g.players)
                       ELSE (g.current_player + 1) % Len(g.players)],
                  "next", plays, oots, reclaim)

\* a discarded that calls check_oot in a step with oot_turn as well
discarded_checking(g, oot_turn, plays, oots, reclaim) ==
    IF g.enable_oot
        THEN passed_on(g, check_oot(g), plays, oots, reclaim)
        ELSE Turn([g EXCEPT !.current_player =
                       (g.current_player + 1) % Len(g.players)],
                  "next", plays, oots, reclaim)

\* the discard x of the player becomes the active card, ms a faceup set
discarded(g, oot_turn, plays, oots, reclaim) ==
    IF ~oot_turn /\ g.enable_oot
        THEN passed_on(g, check_oot(g), plays, oots, reclaim)
        ELSE Turn([g EXCEPT !.current_player =
                       (g.current_player + 1) % Len(g.players)],
                  "next", plays, oots, reclaim)

\* a finished that does not add the melded set to faceup_sets
finished_unseen(g, ms, x, oot_turn, plays, oots, reclaim) ==
    discarded([g EXCEPT !.active_card = x,
                        !.turn_count = g.turn_count + 1],
              oot_turn, plays, oots, reclaim)

finished(g, ms, x, oot_turn, plays, oots, reclaim) ==
    discarded([g EXCEPT !.faceup_sets =
                            IF ms # NoSet THEN Append(g.faceup_sets, ms)
                            ELSE g.faceup_sets,
                        !.active_card = x,
                        !.turn_count = g.turn_count + 1],
              oot_turn, plays, oots, reclaim)

\* conduct_turn after a play_turn with outcome o that is not 'draw'
after_play(g, o, oot_turn, plays, oots, reclaim) ==
    IF o.x = "error"
        THEN Turn(played(g, o), "error",
                  Append(plays, PlayOf(o, g.current_player)), oots, reclaim)
    ELSE IF o.x = "kaeu"
        THEN Turn(played(g, o), "win",
                  Append(plays, PlayOf(o, g.current_player)), oots, reclaim)
    ELSE finished(played(g, o), o.ms, o.card, oot_turn,
                  Append(plays, PlayOf(o, g.current_player)), oots, reclaim)

\* the current player plays on the card drawn
second_play(g, oot_turn, plays, oots, reclaim) ==
    IF g.active_card = NoCard
        \* play_turn evaluates a hand that holds None
        THEN {Turn(g, "error", plays, oots, reclaim)}
    ELSE {after_play(g, o, oot_turn, plays, oots, reclaim) :
             o \in play_turn(current(g), g.active_card, TRUE, g.act, g.lk)}

\* what check_oot(drawn=True) returned decides whether the player plays on
drawn_checked(c, oot_turn, plays, oots, reclaim) ==
    IF c.oot = "oot"
        THEN {Turn(c.g, "oot", plays, Append(oots, c.call), reclaim)}
        ELSE second_play(c.g, oot_turn, plays, Append(oots, c.call), reclaim)

\* the branch x == 'draw', the new active card drawn
drawn_card(g, oot_turn, plays, oots, reclaim) ==
    IF ~oot_turn /\ g.enable_oot
        THEN IF g.active_card = NoCard
                 THEN {Turn(g, "error", plays, oots, reclaim)}
                 ELSE drawn_checked(check_oot(g), oot_turn, plays, oots, reclaim)
        ELSE second_play(g, oot_turn, plays, oots, reclaim)

\* conduct_turn after the first play_turn had outcome o
first_played(g, o, oot_turn, reclaim) ==
    IF o.x = "draw"
        THEN drawn_card(
                 active_card_drawn(
                     [played(g, o) EXCEPT
                         !.discards = Append(g.discards, g.active_card)]),
                 oot_turn, <<PlayOf(o, g.current_player)>>, <<>>, reclaim)
        ELSE {after_play(g, o, oot_turn, <<>>, <<>>, reclaim)}

\* the turn of the current player once the deck holds a card
turn_played(g, oot_turn, reclaim) ==
    IF g.active_card = NoCard
        THEN {Turn(g, "error", <<>>, <<>>, reclaim)}
    ELSE UNION {first_played(g, o, oot_turn, reclaim) :
                   o \in play_turn(current(g), g.active_card, oot_turn,
                                   g.act, g.lk)}

\* the active card that has gone missing is drawn from the deck
turn_started(g, oot_turn, reclaim) ==
    turn_played(IF g.active_card = NoCard THEN active_card_drawn(g) ELSE g,
                oot_turn, reclaim)

\* the discarded cards are appended to the empty deck and the deck is
\* shuffled into the order cards
reshuffled(g, cards, oot_turn) ==
    turn_started([g EXCEPT !.deck = cards], oot_turn,
                 [done |-> TRUE, deck |-> cards, discards |-> g.discards])

\* a not_opening that does not turn the discards into the new deck
not_opening_unshuffled(g, oot_turn) ==
    IF Len(g.deck) = 0 /\ Len(g.discards) = 0
        THEN {Turn(g, "exit", <<>>, <<>>, NoReclaim)}
        ELSE turn_started(g, oot_turn, NoReclaim)

\* a not_opening that returns 'exit' whenever the deck is empty
not_opening_exit_early(g, oot_turn) ==
    IF Len(g.deck) = 0
        THEN {Turn(g, "exit", <<>>, <<>>, NoReclaim)}
        ELSE turn_started(g, oot_turn, NoReclaim)

\* conduct_turn after the opening test failed
not_opening(g, oot_turn) ==
    IF Len(g.deck) = 0
        THEN IF Len(g.discards) = 0
                 THEN {Turn(g, "exit", <<>>, <<>>, NoReclaim)}
                 ELSE UNION {reshuffled(g, cards, oot_turn) :
                                cards \in shuffle_deck(g.deck \o g.discards)}
        ELSE turn_started(g, oot_turn, NoReclaim)

fields_updated(g, oot_turn) ==
    IF Len(current(g).collection) = DealSize + 1 /\ g.active_card = NoCard
        THEN opening(g)
        ELSE not_opening(g, oot_turn)

\* conduct_turn(oot_turn): every outcome it can have
conduct_turn(g, oot_turn) == fields_updated(field_info_updated(g), oot_turn)

---------------------------------------------------------------------------
(* The callers of the two pure functions.  The game's variables stay as    *)
(* they are before setup_game while a Set or a list is evaluated.          *)

gameVars == <<deck, discards, players, current_player, active_card,
              faceup_sets, turn_count, enable_oot, oot, steps, nturns>>

NoGame ==
    /\ deck = <<>> /\ discards = <<>> /\ players = <<>>
    /\ current_player = 0 /\ active_card = NoCard /\ faceup_sets = <<>>
    /\ turn_count = 0 /\ enable_oot = FALSE /\ oot = FALSE
    /\ steps = 0 /\ nturns = 0

NoResult == [found_sets |-> <<>>, hand_score |-> 0, lang_pai |-> <<>>]
NoCall == [input |-> <<>>, result |-> NoResult, before |-> <<>>]

\* the subsets of the cards of a list that can carry active = True
ActiveChoices(cards) ==
    {a \in SUBSET Range(cards) : Cardinality(a) <= MaxActive}

\* the kinds Set is constructed from: every suit in red and in yellow, and
\* chut in all four colours
SetKinds ==
    {k \in 0 .. (Len(validSuits) * Len(validColours) - 1) :
        k % Len(validColours) < 2 \/ k \div Len(validColours) = 6}

\* Set is constructed from 1 to 4 cards (one per colour at most in the
\* largest set the game knows), in any order
InitSet ==
    /\ pc = "start"
    /\ \E n \in 1 .. Len(validColours) :
          \E ks \in [1 .. n -> SetKinds] : arg = CardsOfKinds(ks)
    /\ active \in ActiveChoices(arg)
    /\ locked = {}
    /\ ret = NoSet
    /\ prev = NoCall
    /\ NoGame

\* s = Set(cards)
Construct ==
    /\ pc = "start"
    /\ pc' = "constructed"
    /\ ret' = Set(arg, active)
    /\ UNCHANGED <<arg, prev, active, locked, gameVars>>

NextSet == Construct

SpecSet == InitSet /\ [][NextSet]_vars

---------------------------------------------------------------------------
(* evaluate_hand on its own                                                *)

\* the kinds of the lists evaluate_hand is given here: red kuin, red tse
\* and the four chut
EvalKinds == {0, 4, 24, 25, 26, 27}

\* the caller's lists of n cards: the kinds from the highest rank down, so
\* that sorting has work to do
EvalInputs(n) ==
    {CardsOfKinds(ks) : ks \in
        {f \in [1 .. n -> EvalKinds] : \A i \in 1 .. (n - 1) : f[i] >= f[i + 1]}}

InitEval ==
    /\ pc = "start"
    /\ \E n \in 0 .. MaxHand : arg \in EvalInputs(n)
    /\ active \in ActiveChoices(arg)
    /\ locked = {}
    /\ ret = NoResult
    /\ prev = NoCall
    /\ NoGame

\* the call fs, hs, lp = evaluate_hand(arg, return_sets=True) and what it
\* does to the caller's list and to the cards' locked flags
Call(input) ==
    \E r \in {evaluate_hand(input, active, locked)} :
        /\ ret' = [found_sets |-> r.found_sets, hand_score |-> r.hand_score,
                   lang_pai |-> r.lang_pai]
        /\ arg' = r.cards
        /\ locked' = r.locked

Evaluate ==
    /\ pc = "start"
    /\ pc' = "evaluated"
    /\ prev' = [input |-> arg, result |-> NoResult, before |-> <<>>]
    /\ Call(arg)
    /\ UNCHANGED <<active, gameVars>>

\* a second call on the same list object, nothing done in between
EvaluateAgain ==
    /\ pc = "evaluated"
    /\ pc' = "again"
    /\ prev' = [input |-> arg, result |-> ret, before |-> <<>>]
    /\ Call(arg)
    /\ UNCHANGED <<active, gameVars>>

\* a call on another list that holds the same cards in another order
EvaluateReordered ==
    /\ pc = "evaluated"
    /\ pc' = "reordered"
    /\ \E other \in Orderings(prev.input) :
          /\ prev' = [input |-> other, result |-> ret, before |-> prev.input]
          /\ Call(other)
    /\ UNCHANGED <<active, gameVars>>

NextEval == Evaluate \/ EvaluateAgain \/ EvaluateReordered

SpecEval == InitEval /\ [][NextEval]_vars

---------------------------------------------------------------------------
(* A Player on its own: cards given, then check_meld and play_turn on the  *)
(* active cards that come by                                               *)

\* the active cards one player is offered
MaxOffers == 2

\* the cards that are with the player or have come by
Used == Range(arg) \cup Range(discards) \cup {active_card}

\* the cards that can come by: of every kind, the first card not used yet
Offers ==
    {c \in Cards :
        /\ KindOf(c) \in EvalKinds
        /\ c \notin Used
        /\ \A d \in Cards : (KindOf(d) = KindOf(c) /\ d < c) => d \in Used}

InitPlayer ==
    /\ pc = "start"
    /\ \E n \in 0 .. (MaxHand - 1) : arg \in EvalInputs(n)
    /\ ret = NoSet
    /\ prev = NoCall
    /\ active = {}
    /\ locked = {}
    /\ deck = <<>> /\ discards = <<>> /\ players = <<Player>>
    /\ current_player = 0 /\ active_card = NoCard /\ faceup_sets = <<>>
    /\ turn_count = 0 /\ enable_oot = FALSE /\ oot = FALSE
    /\ steps = 0 /\ nturns = 0

\* p.give_cards(arg)
GiveCards ==
    /\ pc = "start"
    /\ pc' = "given"
    /\ \E r \in {give_cards(players[1], arg, active, locked)} :
          /\ players' = <<r.p>>
          /\ locked' = r.lk
    /\ UNCHANGED <<arg, ret, prev, active, deck, discards, current_player,
                   active_card, faceup_sets, turn_count, enable_oot, oot,
                   steps, nturns>>

\* a card c becomes the active card, and p.check_meld(c)
CheckMeld ==
    /\ pc \in {"given", "played"}
    /\ steps < MaxOffers
    /\ pc' = "checked"
    /\ \E c \in Offers :
          \E r \in {check_meld(players[1], c, active \cup {c}, locked)} :
              /\ active_card' = c
              /\ active' = active \cup {c}
              /\ prev' = [p |-> players[1], act |-> active \cup {c}]
              /\ ret' = r.ms
              /\ players' = <<r.p>>
              /\ locked' = r.lk
    /\ steps' = steps + 1
    /\ UNCHANGED <<arg, deck, discards, current_player, faceup_sets,
                   turn_count, enable_oot, oot, nturns>>

\* p.play_turn(active_card, drawn): the active card goes to the discards if
\* the player leaves it, and so does the card the player discards; after
\* 'kaeu' or an exception nothing more is done with the player
PlayTurn ==
    /\ pc = "checked"
    /\ \E drawn \in BOOLEAN :
          \E o \in play_turn(players[1], active_card, drawn, active, locked) :
              /\ pc' = IF o.x \in {"card", "draw"} THEN "played" ELSE "ended"
              /\ players' = <<o.p>>
              /\ active' = o.act
              /\ locked' = o.lk
              /\ discards' =
                     IF o.x \in {"kaeu", "error"} THEN discards
                     ELSE IF o.x = "draw" \/ o.card = active_card
                         THEN Append(discards, active_card)
                         ELSE Append(discards, o.card)
              /\ ret' = [ms |-> o.ms, x |-> o.x, card |-> o.card,
                         drawn |-> drawn]
    /\ prev' = [p |-> players[1], act |-> active]
    /\ UNCHANGED <<arg, deck, current_player, active_card, faceup_sets,
                   turn_count, enable_oot, oot, steps, nturns>>

NextPlayer == GiveCards \/ CheckMeld \/ PlayTurn

SpecPlayer == InitPlayer /\ [][NextPlayer]_vars

---------------------------------------------------------------------------
(* discard_card on its own, for a player who was given cards               *)

\* the cards given to the player who then discards
MaxGiven == 6

\* the kinds given: red kuin, tse and xiong, and chut in three colours
DiscardKinds == {0, 4, 8, 24, 25, 26}

GivenInputs(n) ==
    {CardsOfKinds(ks) : ks \in
        {f \in [1 .. n -> DiscardKinds] : \A i \in 1 .. (n - 1) : f[i] >= f[i + 1]}}

InitDiscard ==
    /\ pc = "start"
    /\ \E n \in 1 .. MaxGiven : arg \in GivenInputs(n)
    /\ ret = NoCard
    /\ prev = NoCall
    /\ active = {}
    /\ locked = {}
    /\ deck = <<>> /\ discards = <<>> /\ players = <<Player>>
    /\ current_player = 0 /\ active_card = NoCard /\ faceup_sets = <<>>
    /\ turn_count = 0 /\ enable_oot = FALSE /\ oot = FALSE
    /\ steps = 0 /\ nturns = 0

\* p.give_cards(arg)
Given ==
    /\ pc = "start"
    /\ pc' = "given"
    /\ \E r \in {give_cards(players[1], arg, active, locked)} :
          /\ players' = <<r.p>>
          /\ locked' = r.lk
    /\ UNCHANGED <<arg, ret, prev, active, deck, discards, current_player,
                   active_card, faceup_sets, turn_count, enable_oot, oot,
                   steps, nturns>>

\* dc = p.discard_card(): ret is dc, NoCard for None
Discard ==
    /\ pc = "given"
    /\ pc' = "discarded"
    /\ prev' = [p |-> players[1], act |-> active]
    /\ IF DiscardChoices(players[1]) = {}
           THEN ret' = NoCard /\ UNCHANGED <<players, locked>>
           ELSE \E dc \in DiscardChoices(players[1]) :
                    \E r \in {discard_card(players[1], dc, active, locked)} :
                        /\ ret' = dc
                        /\ players' = <<r.p>>
                        /\ locked' = r.lk
    /\ UNCHANGED <<arg, active, deck, discards, current_player, active_card,
                   faceup_sets, turn_count, enable_oot, oot, steps, nturns>>

NextDiscard == Given \/ Discard

SpecDiscard == InitDiscard /\ [][NextDiscard]_vars

---------------------------------------------------------------------------
(* play_game: the game set up, then the main loop, one conduct_turn a step *)

\* the values of nturns play_game is called with: until someone wins, or
\* for so many steps
TurnChoices == {0, MaxSteps - 2}

NoTurn == [result |-> "none", plays |-> <<>>, oots |-> <<>>,
           reclaim |-> NoReclaim, oot_turn |-> FALSE]

\* the globals of game.py and the flags of the cards
Globals ==
    [deck |-> deck, discards |-> discards, players |-> players,
     current_player |-> current_player, active_card |-> active_card,
     faceup_sets |-> faceup_sets, turn_count |-> turn_count,
     enable_oot |-> enable_oot, act |-> active, lk |-> locked, ok |-> TRUE]

Init ==
    /\ pc = "start"
    /\ arg = <<>>
    /\ ret = NoTurn
    /\ prev = <<>>
    /\ active = {}
    /\ locked = {}
    /\ NoGame

\* the globals become those of g
Assigned(g) ==
    /\ deck' = g.deck
    /\ discards' = g.discards
    /\ players' = g.players
    /\ current_player' = g.current_player
    /\ active_card' = g.active_card
    /\ faceup_sets' = g.faceup_sets
    /\ turn_count' = g.turn_count
    /\ active' = g.act
    /\ locked' = g.lk

\* the agents play_game is given: none (the default []), or a list of two
AgentLists == {<<>>, <<Player, Player>>}

\* the list setup_game is called with
agents_or_default(agents) ==
    IF Len(agents) > 0 THEN agents ELSE [i \in 1 .. nplayers |-> Player]

\* play_game(nplayers, agents, nturns=nt, with_oot=with_oot) up to its main
\* loop
PlayGame ==
    /\ pc = "start"
    /\ \E agents \in AgentLists, with_oot \in BOOLEAN, nt \in TurnChoices,
          cards \in shuffle_deck(populate_deck) :
          \E fp \in 0 .. (Len(agents_or_default(agents)) - 1) :
              \E g \in {setup_game(agents_or_default(agents), cards, fp)} :
                  /\ Assigned(g)
                  /\ pc' = IF g.ok THEN "playing" ELSE "crashed"
                  /\ enable_oot' = IF nplayers > 2 THEN with_oot ELSE FALSE
                  /\ nturns' = nt
                  /\ arg' = [agents |-> agents, with_oot |-> with_oot,
                             nturns |-> nt, cards |-> cards, fp |-> fp]
    /\ oot' = FALSE
    /\ steps' = 0
    /\ UNCHANGED <<ret, prev>>

\* one pass of the main loop of play_game: conduct_turn(oot_turn=oot), then
\* break on 'win' and 'exit'; the for loop ends after nturns passes
ConductTurn ==
    /\ pc = "playing"
    /\ steps < MaxSteps
    /\ \E o \in conduct_turn(Globals, oot) :
          /\ Assigned(o.g)
          /\ ret' = [result |-> o.result, plays |-> o.plays, oots |-> o.oots,
                     reclaim |-> o.reclaim, oot_turn |-> oot]
          /\ pc' = IF o.result = "error" THEN "crashed"
                   ELSE IF o.result \in {"win", "exit"} THEN "done"
                   ELSE IF nturns > 0 /\ steps + 1 = nturns THEN "done"
                   ELSE "playing"
          /\ oot' = IF o.result \in {"win", "exit", "error"} THEN oot
                    ELSE (o.result = "oot")
    /\ prev' = Globals
    /\ steps' = steps + 1
    /\ UNCHANGED <<arg, enable_oot, nturns>>

Next == PlayGame \/ ConductTurn

Spec == Init /\ [][Next]_vars

---------------------------------------------------------------------------
(* conduct_turn called step by step by a caller that also takes cards off  *)
(* the deck between the steps.  Inside play_game a card leaves the deck    *)
(* only after the active card has gone to the discards, so that the deck   *)
(* and the discards are never both empty there.                            *)

\* deck.draw_active_card() called by the caller, who keeps the card; the
\* caller does so while no card has been discarded
DrawActiveCard ==
    /\ pc = "playing"
    /\ Len(deck) > 0
    /\ discards = <<>>
    /\ deck' = SubSeq(deck, 1, Len(deck) - 1)
    /\ active' = active \cup {deck[Len(deck)]}
    /\ UNCHANGED <<pc, arg, ret, prev, locked, discards, players,
                   current_player, active_card, faceup_sets, turn_count,
                   enable_oot, oot, steps, nturns>>

NextTurns == PlayGame \/ ConductTurn \/ DrawActiveCard

SpecTurns == Init /\ [][NextTurns]_vars

---------------------------------------------------------------------------
(* Properties of Set.evaluate_score (SpecSet)                              *)

\* the suits and the colours of a list, as sets
SuitsOf(cards) == {suit(cards[i]) : i \in 1 .. Len(cards)}
ColoursOf(cards) == {colour(cards[i]) : i \in 1 .. Len(cards)}

\* identical suit+colour, suit # kuin
IdenticalNonKuin(cards) ==
    /\ Cardinality(SuitsOf(cards)) = 1 /\ Cardinality(ColoursOf(cards)) = 1
    /\ "kuin" \notin SuitsOf(cards)

\* same suit = chut, all colours unique
ChutOfUniqueColours(cards) ==
    /\ SuitsOf(cards) = {"chut"}
    /\ Cardinality(ColoursOf(cards)) = Len(cards)

\* same colour, one card of each of the three suits
RunOf(cards, suits) ==
    /\ Len(cards) = 3 /\ Cardinality(ColoursOf(cards)) = 1
    /\ SuitsOf(cards) = suits

\* the rows of the scoring table, in its order: <<matches, score>>
ScoringTable(cards, melded) ==
    << <<Len(cards) = 4 /\ IdenticalNonKuin(cards), IF melded THEN 6 ELSE 8>>,
       <<Len(cards) = 3 /\ IdenticalNonKuin(cards), IF melded THEN 1 ELSE 3>>,
       <<Len(cards) = 2 /\ IdenticalNonKuin(cards), 0>>,
       <<Len(cards) = 4 /\ ChutOfUniqueColours(cards), 4>>,
       <<Len(cards) = 3 /\ ChutOfUniqueColours(cards), 1>>,
       <<RunOf(cards, {"kuin", "tse", "xiong"}), 2>>,
       <<RunOf(cards, {"kee", "mah", "pau"}), 1>>,
       <<Len(cards) = 1 /\ SuitsOf(cards) = {"kuin"}, 1>> >>

\* the score of the first matching row, -1 when no row matches
TableScore(cards, melded) ==
    LET table == ScoringTable(cards, melded)
        matching == {i \in 1 .. Len(table) : table[i][1]}
    IN  IF matching = {} THEN 0 - 1
        ELSE table[CHOOSE i \in matching : \A j \in matching : i <= j][2]

\* C3: a Set of 1 to 4 cards has the score of the first matching row of the
\* scoring table, -1 when no row matches, and it is invalid exactly when its
\* score is -1
C3_ScoringTableExact ==
    pc = "constructed" =>
        /\ ret.score = TableScore(arg, \E c \in Range(arg) : c \in active)
        /\ ret.invalid <=> ret.score = 0 - 1

\* a melded 4-of-a-kind was scored
C3_Witness ==
    /\ pc = "constructed" /\ Len(arg) = 4 /\ ret.melded /\ ret.score = 6

---------------------------------------------------------------------------
(* Properties of evaluate_hand (SpecEval)                                  *)

Returned == pc \in {"evaluated", "again", "reordered"}

\* the cards of all found sets
FoundCards(fs) == UNION {Range(fs[i].cards) : i \in 1 .. Len(fs)}

\* C4: the found sets are pairwise disjoint, none scores below 0, the loose
\* cards are exactly the cards of the input in no found set, and the total
\* is the sum of the found sets' scores
C4_EvaluatorPartition ==
    Returned =>
        /\ \A i, j \in 1 .. Len(ret.found_sets) :
              i # j => Range(ret.found_sets[i].cards)
                           \cap Range(ret.found_sets[j].cards) = {}
        /\ \A i \in 1 .. Len(ret.found_sets) :
              /\ ret.found_sets[i].score >= 0
              /\ Cardinality(Range(ret.found_sets[i].cards))
                     = Len(ret.found_sets[i].cards)
        /\ FoundCards(ret.found_sets) \subseteq Range(prev.input)
        /\ Range(ret.lang_pai) = Range(prev.input) \ FoundCards(ret.found_sets)
        /\ Len(ret.lang_pai) = Cardinality(Range(ret.lang_pai))
        /\ ret.hand_score = SumScores(ret.found_sets)

\* a list was split into two sets or more and a loose card
C4_Witness ==
    /\ pc = "reordered" /\ Len(ret.found_sets) >= 2 /\ ret.lang_pai # <<>>
    /\ ret.hand_score > 0

\* C5: a second evaluation of the same list returns the same found sets in
\* the same order, the same total and the same loose cards, and no card of
\* the input is locked after a return
C5_EvaluatorIdempotent ==
    /\ pc = "again" =>
          /\ ret.found_sets = prev.result.found_sets
          /\ ret.hand_score = prev.result.hand_score
          /\ ret.lang_pai = prev.result.lang_pai
    /\ Returned => locked \cap Range(prev.input) = {}

\* a list that was not in rank order was evaluated twice and has sets
C5_Witness ==
    /\ pc = "again" /\ Len(ret.found_sets) >= 2 /\ ret.lang_pai # <<>>
    /\ active # {}

\* what evaluate_hand can see of a card
Content(c) == <<colour(c), suit(c), c \in active>>

\* the composition of a found set (how many cards of each content it has),
\* and how many found sets have a composition
Composition(s) ==
    [x \in {Content(s.cards[i]) : i \in 1 .. Len(s.cards)} |->
        Cardinality({i \in 1 .. Len(s.cards) : Content(s.cards[i]) = x})]
Compositions(fs) == {Composition(fs[i]) : i \in 1 .. Len(fs)}
HowMany(fs, comp) ==
    Cardinality({i \in 1 .. Len(fs) : Composition(fs[i]) = comp})

SameResult(r1, r2) ==
    /\ r1.hand_score = r2.hand_score
    /\ Compositions(r1.found_sets) = Compositions(r2.found_sets)
    /\ \A comp \in Compositions(r1.found_sets) :
          HowMany(r1.found_sets, comp) = HowMany(r2.found_sets, comp)

\* C6 as claimed: any reordering of a list gets the same total and the same
\* collection of found-set compositions
C6_AnyReordering ==
    pc = "reordered" => SameResult(ret, prev.result)

Position(s, c) == CHOOSE i \in 1 .. Len(s) : s[i] = c

\* the reordering keeps the relative order of the cards of equal rank that
\* differ in their active flag
KeepsOrderOfActive(s, r) ==
    \A c, d \in Range(s) :
        (/\ calculate_rank(c) = calculate_rank(d)
         /\ (c \in active) # (d \in active))
            => (Position(s, c) < Position(s, d)
                   <=> Position(r, c) < Position(r, d))

\* C6 (amended): a reordering that keeps the relative order of the cards of
\* equal rank whose active flags differ gets the same total and the same
\* collection of found-set compositions
C6_ReorderingKeepingActive ==
    (pc = "reordered" /\ KeepsOrderOfActive(prev.before, prev.input))
        => SameResult(ret, prev.result)

\* a list with an active card and sets was reordered, cards of different
\* kinds changing places
C6_Witness ==
    /\ pc = "reordered" /\ KeepsOrderOfActive(prev.before, prev.input)
    /\ prev.before # prev.input /\ active # {}
    /\ \E i \in 1 .. Len(ret.found_sets) : ret.found_sets[i].melded
    /\ Len(ret.found_sets) >= 2
    /\ \E i \in 1 .. Len(prev.input) :
          KindOf(prev.input[i]) # KindOf(prev.before[i])

\* C24: after a call of evaluate_hand the caller's list holds the same
\* cards in the same order as before the call, and no card of it is locked
\* (none was before the call)
C24_InputUntouched ==
    Returned =>
        /\ arg = prev.input
        /\ locked \cap Range(arg) = {}

\* the cards of the list s that are in the set of cards chosen, in the
\* order of s
SubList(s, chosen) == SelectSeq(s, LAMBDA c : c \in chosen)

\* C26: no cards taken from the loose cards evaluate_hand returns form a
\* valid Set (a Set with a score of 0 or more): no loose card is a kuin, no
\* two are a pair, no three a kuin-tse-xiong or three chut of different
\* colours, and so on for every choice of loose cards
C26_IrreducibleResidue ==
    Returned =>
        /\ \A chosen \in SUBSET Range(ret.lang_pai) :
               chosen # {} => Set(SubList(ret.lang_pai, chosen), active).score < 0
        /\ \A c \in Range(ret.lang_pai) : suit(c) # "kuin"
        /\ \A c, d \in Range(ret.lang_pai) : c # d => KindOf(c) # KindOf(d)

\* a list has left a pair among the found sets and two loose cards or more
C26_Witness ==
    /\ Returned /\ Len(ret.lang_pai) >= 2
    /\ \E i \in 1 .. Len(ret.found_sets) : Len(ret.found_sets[i].cards) = 2

---------------------------------------------------------------------------
(* Properties of a Player (SpecPlayer)                                     *)

\* C10: a call of check_meld leaves the player's hand, in content and in
\* order, hand_sets, lang_pai, melded_sets, facedown_sets, the four scores
\* and collection as they were, leaves the flags of the active card as they
\* were, and leaves no card locked
C10_CheckMeldPure ==
    pc = "checked" =>
        /\ players[1].hand = prev.p.hand
        /\ players[1].hand_sets = prev.p.hand_sets
        /\ players[1].lang_pai = prev.p.lang_pai
        /\ players[1].melded_sets = prev.p.melded_sets
        /\ players[1].facedown_sets = prev.p.facedown_sets
        /\ players[1].hand_score = prev.p.hand_score
        /\ players[1].melded_score = prev.p.melded_score
        /\ players[1].facedown_score = prev.p.facedown_score
        /\ players[1].total_score = prev.p.total_score
        /\ players[1].collection = prev.p.collection
        /\ active = prev.act
        /\ active_card \in active
        /\ locked = {}

\* check_meld found a set to meld for a player who had melded a set before
C10_Witness ==
    /\ pc = "checked"
    /\ ret # NoSet
    /\ players[1].melded_sets # <<>>
    /\ players[1].hand # <<>>

\* play_turn has returned or raised
PlayReturned == pc \in {"played", "ended"}

\* what evaluate_hand returns for the hand the player had with the active
\* card
HandWithCard ==
    evaluate_hand(Append(prev.p.hand, active_card), prev.act, {})

\* the i-th found set of r holds the active card, the score of r is above
\* hand_score, and a loose card is left or another found set has more than
\* one card
WorthMelding(r, i, hand_score) ==
    /\ active_card \in Range(r.found_sets[i].cards)
    /\ r.hand_score > hand_score
    /\ \/ Len(r.lang_pai) > 0
       \/ \E j \in 1 .. Len(r.found_sets) :
             j # i /\ Len(r.found_sets[j].cards) > 1

MeldAsClaimed(r, ms, hand_score) ==
    IF \E i \in 1 .. Len(r.found_sets) : WorthMelding(r, i, hand_score)
        THEN \E i \in 1 .. Len(r.found_sets) :
                 WorthMelding(r, i, hand_score) /\ ms = r.found_sets[i]
        ELSE ms = NoSet

\* C11: check_meld returns a set exactly when a found set holds the active
\* card, the score of the hand with the active card is strictly above the
\* recorded hand_score, and a loose card is left or a found set other than
\* the returned one has more than one card; it returns that set, and None
\* in every other case
C11_MeldProfitableAndLegal ==
    pc = "checked" => MeldAsClaimed(HandWithCard, ret, prev.p.hand_score)

\* check_meld returned a set that leaves no loose card, only a set to break
C11_Witness ==
    /\ pc = "checked"
    /\ ret # NoSet
    /\ Len(HandWithCard.lang_pai) = 0

\* the player p after the melded sets of r were committed and the hand
\* evaluated again
Tentative(p, r, act) ==
    evaluate_player_hand(melds_committed(p, r), act, r.locked).p

\* play_turn on the hand evaluated as r commits a meld for the player p and
\* discard_card then finds nothing to discard
MeldWithoutDiscard(p, r, act) ==
    /\ r.hand_score > p.hand_score \/ can_tok(p, r.hand_score, r.lang_pai)
    /\ \E i \in 1 .. Len(r.found_sets) : r.found_sets[i].melded
    /\ ~can_win(Tentative(p, r, act))
    /\ DiscardChoices(Tentative(p, r, act)) = {}

\* the two lists hold the same cards
SameCards(s1, s2) ==
    Len(s1) = Len(s2) /\ \A c \in Range(s1) \cup Range(s2) :
        Cardinality({i \in 1 .. Len(s1) : s1[i] = c})
            = Cardinality({i \in 1 .. Len(s2) : s2[i] = c})

\* C12: when play_turn has committed a meld and discard_card finds no
\* discard, play_turn returns without error, with the hand, melded_sets,
\* hand_score, melded_score, total_score and lang_pai the player had before
\* the call, with no melded set, and with the active card if drawn, 'draw'
\* if not
C12_MeldRollback ==
    (PlayReturned /\ MeldWithoutDiscard(prev.p, HandWithCard, prev.act)) =>
        /\ ret.x # "error"
        /\ SameCards(players[1].hand, prev.p.hand)
        /\ players[1].melded_sets = prev.p.melded_sets
        /\ players[1].hand_score = prev.p.hand_score
        /\ players[1].melded_score = prev.p.melded_score
        /\ players[1].total_score = prev.p.total_score
        /\ players[1].lang_pai = prev.p.lang_pai
        /\ ret.ms = NoSet
        /\ IF ret.drawn THEN ret.x = "card" /\ ret.card = active_card
                        ELSE ret.x = "draw"

\* a meld was rolled back for a player who had melded a set before and
\* holds cards
C12_Witness ==
    /\ PlayReturned
    /\ MeldWithoutDiscard(prev.p, HandWithCard, prev.act)
    /\ prev.p.melded_sets # <<>>
    /\ prev.p.hand # <<>>
    /\ ret.drawn

---------------------------------------------------------------------------
(* Properties of discard_card (SpecDiscard)                                *)

\* the hand sets of p that are pairs, that are triples of chut of three
\* colours, and that have more than one card and the lowest score of these
PairsOf(p) == {i \in 1 .. Len(p.hand_sets) : Len(p.hand_sets[i].cards) = 2}

ChutTriplesOf(p) ==
    {i \in 1 .. Len(p.hand_sets) :
        /\ Len(p.hand_sets[i].cards) = 3
        /\ SuitsOf(p.hand_sets[i].cards) = {"chut"}
        /\ Cardinality(ColoursOf(p.hand_sets[i].cards)) = 3}

BreakableOf(p) == {i \in 1 .. Len(p.hand_sets) : Len(p.hand_sets[i].cards) > 1}

CheapestOf(p) ==
    {i \in BreakableOf(p) :
        \A j \in BreakableOf(p) : p.hand_sets[i].score <= p.hand_sets[j].score}

\* the card dc is a card of one of the hand sets of p with an index in among
FromSets(p, dc, among) == \E i \in among : dc \in Range(p.hand_sets[i].cards)

\* C14: with loose cards discard_card returns a loose card; with none and
\* the player not winning it returns a card of a pair if there is a pair,
\* otherwise of a triple of chut of three colours if there is one, otherwise
\* of a set of the lowest score among the sets of more than one card, and
\* None exactly when no hand set has more than one card
C14_DiscardPriority ==
    pc = "discarded" =>
        IF Len(prev.p.lang_pai) > 0 THEN ret \in Range(prev.p.lang_pai)
        ELSE IF can_win(prev.p) THEN TRUE
        ELSE IF BreakableOf(prev.p) = {} THEN ret = NoCard
        ELSE /\ ret # NoCard
             /\ FromSets(prev.p, ret,
                    IF PairsOf(prev.p) # {} THEN PairsOf(prev.p)
                    ELSE IF ChutTriplesOf(prev.p) # {} THEN ChutTriplesOf(prev.p)
                    ELSE CheapestOf(prev.p))

\* C25: the card discard_card returns is never a kuin, whether it is a loose
\* card or a card of a set that is broken up
C25_KuinNeverDiscarded ==
    (pc = "discarded" /\ ret # NoCard) => suit(ret) # "kuin"

---------------------------------------------------------------------------
(* Properties of the game (Spec)                                           *)

\* setup_game has returned, or a conduct_turn step has
AfterStep == pc \in {"playing", "done"}

\* a conduct_turn step has returned
Stepped == AfterStep /\ ret.result # "none"

\* every place a card can be in, one after the other
PlacesOf(p) ==
    p.hand \o CardsOfSets(p.facedown_sets) \o CardsOfSets(p.melded_sets)

RECURSIVE PlayerPlaces(_)
PlayerPlaces(ps) ==
    IF ps = <<>> THEN <<>> ELSE PlacesOf(Head(ps)) \o PlayerPlaces(Tail(ps))

Places ==
    deck \o discards \o PlayerPlaces(players)
         \o (IF active_card = NoCard THEN <<>> ELSE <<active_card>>)

\* how many times the card c is in the list s
Count(s, c) == Cardinality({i \in 1 .. Len(s) : s[i] = c})

\* C1: after setup_game and after every conduct_turn step every card of the
\* original deck is in exactly one place among the deck, the discards, the
\* players' hands, facedown sets and melded sets, and the active card
C1_CardConservation ==
    AfterStep =>
        /\ Len(Places) = Len(populate_deck)
        /\ \A c \in Range(populate_deck) : Count(Places, c) = 1

\* C2: when a step that is not the opening starts with an empty deck and
\* discards, the reclaim leaves in the deck exactly the cards that were in
\* discards, and leaves discards empty, before a card is drawn
C2_ReshuffleEmptiesDiscards ==
    (Stepped /\ ret.reclaim.done) =>
        /\ Len(ret.reclaim.deck) = Len(prev.discards)
        /\ \A c \in Range(prev.discards) :
              Count(ret.reclaim.deck, c) = Count(prev.discards, c)
        /\ ret.reclaim.discards = <<>>

\* the last call of play_turn of the step returned 'kaeu'
EndsWithKaeu ==
    ret.plays # <<>> /\ ret.plays[Len(ret.plays)].x = "kaeu"

\* C7: play_turn returns 'kaeu' if and only if the meld criterion held and,
\* the meld committed and the hand evaluated again, the player has no loose
\* card and a total score of 9 or more; conduct_turn returns 'win' exactly
\* when the play_turn of the current player returned 'kaeu', and
\* current_player is then that player
C7_WinDetection ==
    /\ \A i \in 1 .. Len(ret.plays) :
          (ret.plays[i].x = "kaeu") <=>
              (ret.plays[i].met /\ ret.plays[i].loose = 0
                  /\ ret.plays[i].total >= 9)
    /\ \A i \in 1 .. Len(ret.plays) :
          ret.plays[i].x = "kaeu" => i = Len(ret.plays)
    /\ (ret.result = "win") <=> EndsWithKaeu
    /\ ret.result = "win" =>
          /\ ret.plays[Len(ret.plays)].who = current_player
          /\ current_player = prev.current_player
          /\ Len(players[current_player + 1].lang_pai) = 0
          /\ players[current_player + 1].total_score >= 9

\* a player won on the card drawn, no out-of-turn meld in the way
C7_Witness ==
    /\ pc = "done" /\ ret.result = "win"
    /\ Len(ret.plays) = 2 /\ Len(ret.oots) = 1

\* in a call c of check_oot, player i can meld an identical set of size cards
Holds(c, i, size) ==
    /\ c.oot_sets[i + 1] # NoSet
    /\ is_identical_set(c.oot_sets[i + 1])
    /\ Len(c.oot_sets[i + 1].cards) = size

\* the k-th player in turn order from the player who is current
InTurn(c, k) == (c.current_was + k) % Len(c.oot_sets)

\* the first player in turn order who can meld an identical set of size cards
FirstHolding(c, size) ==
    InTurn(c, CHOOSE k \in 0 .. (Len(c.oot_sets) - 1) :
                  /\ Holds(c, InTurn(c, k), size)
                  /\ \A j \in 0 .. (k - 1) : ~Holds(c, InTurn(c, j), size))

SomeoneHolds(c, size) ==
    \E i \in 0 .. (Len(c.oot_sets) - 1) : Holds(c, i, size)

\* the player check_oot selects (NoCard: nobody)
Selected(c) ==
    IF SomeoneHolds(c, 4) THEN FirstHolding(c, 4)
    ELSE IF /\ c.oot_sets[c.current_was + 1] # NoSet
            /\ is_four_colour_set(c.oot_sets[c.current_was + 1])
        THEN NoCard
    ELSE IF SomeoneHolds(c, 3) THEN FirstHolding(c, 3)
    ELSE NoCard

PriorityKept(c) ==
    IF Selected(c) = NoCard
          \/ Selected(c) = (c.current_was + 1) % Len(c.oot_sets)
        THEN c.oot = "meld" /\ c.current_player = c.current_was
        ELSE c.oot = "oot" /\ c.current_player = Selected(c)

C9_OotMovesTheTurn ==
    (Stepped /\ ret.result = "oot") => current_player # prev.current_player

\* conduct_turn was called and has returned or raised
Conducted == pc \in {"playing", "done", "crashed"} /\ ret.result # "none"

\* the step started with the opening test true: the current player holds
\* one card more than was dealt and there is no active card
WasOpening ==
    /\ Len(prev.players[prev.current_player + 1].collection) = DealSize + 1
    /\ prev.active_card = NoCard

AfterDeal == pc = "playing" /\ steps = 0

\* the card setup_game deals as the extra card of the first player, and the
\* cards it deals to player i (counted from 1), taken from the shuffled deck
ExtraCard == arg.cards[Len(arg.cards) - Len(players) * DealSize]

DealtTo(i) ==
    {arg.cards[Len(arg.cards) - (i - 1) * DealSize - j] : j \in 0 .. (DealSize - 1)}
        \cup (IF i = arg.fp + 1 THEN {ExtraCard} ELSE {})

FourOfAKind(s) == Len(s.cards) = 4 /\ is_identical_set(s)

\* the cards that can be part of identical sets: a kuin is a set on its own
NotKuin(cards) == {c \in cards : suit(c) # "kuin"}

\* player p, dealt the cards dealt, has the four identical cards of kind k
\* face down and not in hand
FacedownOf(p, dealt, k) ==
    \E f \in 1 .. Len(p.facedown_sets) :
        /\ FourOfAKind(p.facedown_sets[f])
        /\ Range(p.facedown_sets[f].cards) \subseteq {c \in dealt : KindOf(c) = k}
        /\ Range(p.facedown_sets[f].cards) \cap Range(p.hand) = {}

\* no card is in two facedown sets of p
FacedownOnce(p) ==
    \A f1, f2 \in 1 .. Len(p.facedown_sets) :
        f1 # f2 => Range(p.facedown_sets[f1].cards)
                       \cap Range(p.facedown_sets[f2].cards) = {}

\* C15: after the deal (DealSize cards for every player and one more for
\* the first player) no hand set of a player is four identical cards, four
\* identical cards (of a suit other than kuin, as identical sets are) among
\* the cards dealt to a player are a facedown set and not in the hand, and
\* facedown_score is the sum of the scores of the facedown sets, each set
\* there once
C15_FacedownAtDeal ==
    AfterDeal =>
        \A i \in 1 .. Len(players) :
            /\ \A h \in 1 .. Len(players[i].hand_sets) :
                   ~FourOfAKind(players[i].hand_sets[h])
            /\ \A k \in {KindOf(c) : c \in NotKuin(DealtTo(i))} :
                   Cardinality({c \in DealtTo(i) : KindOf(c) = k}) >= 4
                       => FacedownOf(players[i], DealtTo(i), k)
            /\ players[i].facedown_score = SumScores(players[i].facedown_sets)
            /\ FacedownOnce(players[i])

\* the extra card completes four identical cards of the first player, and
\* another player was dealt four identical cards at once
C15_Witness ==
    /\ AfterDeal
    /\ \E f \in 1 .. Len(players[arg.fp + 1].facedown_sets) :
           /\ FourOfAKind(players[arg.fp + 1].facedown_sets[f])
           /\ ExtraCard \in Range(players[arg.fp + 1].facedown_sets[f].cards)
    /\ \E i \in 1 .. Len(players) :
           i # arg.fp + 1 /\ players[i].facedown_score > 0

\* play_game(nturns = k) with k > 0 has left its loop after k passes, none
\* of which returned 'win' or 'exit'
TurnsOver == pc = "done" /\ nturns > 0 /\ ret.result \notin {"win", "exit"}

\* C16: play_game with nturns = k > 0 ends, unless a step returned 'win' or
\* 'exit', with turn_count = k
C16_TurnLimit == TurnsOver => turn_count = nturns

\* C17: out-of-turn melding is enabled exactly when play_game was called
\* with with_oot and the game has more than 2 players, the players being
\* the agents of the list when play_game is given one
C17_AgentsOverrideNplayers ==
    pc # "start" => (enable_oot <=> (arg.with_oot /\ Len(players) > 2))

\* every play_turn of the step was called on the player who was the current
\* player when the step began
ActedBy(who) == \A i \in 1 .. Len(ret.plays) : ret.plays[i].who = who

\* C18: whenever conduct_turn returns 'next', the player who acted is the
\* player who was current when the step began (in a step with oot_turn the
\* interrupter) and current_player is that player plus one modulo the
\* number of players
C18_NextAdvances ==
    (Stepped /\ ret.result = "next") =>
        /\ ActedBy(prev.current_player)
        /\ current_player = (prev.current_player + 1) % Len(players)

\* a step with oot_turn has returned 'next' and the last player of the list
\* was the interrupter: play resumes with the first
C18_Witness ==
    /\ Stepped /\ ret.result = "next" /\ ret.oot_turn
    /\ Len(ret.plays) = 1
    /\ prev.current_player = Len(players) - 1
    /\ current_player = 0

\* a conduct_turn step entered with oot_turn = True has returned
Continued == Conducted /\ ret.oot_turn

\* the deck the player of the step could draw from: the deck the step began
\* with, or the reshuffled discards
DeckOfStep == IF ret.reclaim.done THEN ret.reclaim.deck ELSE prev.deck

\* C19: a conduct_turn step entered with oot_turn = True draws no card from
\* the deck (its one play_turn does not return 'draw'), calls check_oot not
\* once and returns 'next', 'win' or 'exit', so that the main loop never
\* enters two steps in a row with oot_turn = True
C19_InterruptContinuation ==
    Continued =>
        /\ deck = DeckOfStep
        /\ \A i \in 1 .. Len(ret.plays) : ret.plays[i].x # "draw"
        /\ Len(ret.plays) <= 1
        /\ ret.oots = <<>>
        /\ ret.result \in {"next", "win", "exit"}
        /\ pc = "playing" => ~oot

\* a step with oot_turn has ended in a discard, with out-of-turn melding
\* enabled, and the main loop goes on
C19_Witness ==
    /\ Continued /\ enable_oot /\ Len(ret.plays) = 1
    /\ ret.result = "next" /\ pc = "playing"
    /\ active_card # prev.active_card

\* what check_meld returns for the interrupter on the active card the step
\* began with
Reported ==
    check_meld(prev.players[prev.current_player + 1], prev.active_card,
               prev.act, prev.lk).ms

\* C20: the conduct_turn step that follows an 'oot' has one play_turn, of
\* the player check_oot selected, which commits the melded set check_meld
\* reported, an identical set of 3 or 4 cards with the active card, and the
\* step ends in a discard of another card or in a win
C20_InterrupterMelds ==
    Continued =>
        /\ Len(ret.plays) = 1
        /\ ret.plays[1].who = prev.current_player
        /\ ret.plays[1].met
        /\ ret.plays[1].ms # NoSet
        /\ ret.plays[1].ms = Reported
        /\ prev.active_card \in Range(ret.plays[1].ms.cards)
        /\ is_identical_set(ret.plays[1].ms)
        /\ Len(ret.plays[1].ms.cards) \in {3, 4}
        /\ \E m \in 1 .. Len(players[prev.current_player + 1].melded_sets) :
               players[prev.current_player + 1].melded_sets[m] = ret.plays[1].ms
        /\ ret.result \in {"next", "win"}
        /\ ret.result = "next" =>
               /\ active_card # prev.active_card
               /\ active_card \in Range(prev.players[prev.current_player + 1].hand)

\* the interrupter has melded four identical cards, the active card among
\* them, and discarded a card of its hand
C20_Witness ==
    /\ Continued /\ ret.result = "next" /\ Len(ret.plays) = 1
    /\ Len(ret.plays[1].ms.cards) = 4
    /\ prev.active_card \in Range(ret.plays[1].ms.cards)
    /\ active_card \in Range(prev.players[prev.current_player + 1].hand)

\* a conduct_turn step that was not the opening has ended
AfterOpening == Conducted /\ ~WasOpening

\* the first play_turn of the step returned 'draw': a card was drawn
Drew == Len(ret.plays) > 0 /\ ret.plays[1].x = "draw"

\* the play_turn calls of the step that were made with drawn = True
DrawnPlays ==
    {i \in 1 .. Len(ret.plays) : i > 1 \/ ret.oot_turn}

\* C21: a conduct_turn step after the opening that does not return 'exit'
\* begins and ends with a card as active_card, so that the branch for a
\* missing active card is not taken; no play_turn called with drawn = True
\* returns 'draw'; and the deck holds a card whenever one is drawn
C21_ActiveCardPresent ==
    (AfterOpening /\ ret.result # "exit") =>
        /\ prev.active_card \in Cards
        /\ active_card \in Cards
        /\ ret.result # "error"
        /\ \A i \in DrawnPlays : ret.plays[i].x # "draw"
        /\ Drew => /\ Len(DeckOfStep) > 0
                   /\ Len(ret.plays) = 1 =>
                          active_card = DeckOfStep[Len(DeckOfStep)]
                   /\ Len(deck) = Len(DeckOfStep) - 1

\* the deck was empty, the discards became the deck, and the player drew
\* from it and discarded the card drawn
C21_Witness ==
    /\ AfterOpening /\ ret.result = "next"
    /\ ret.reclaim.done /\ Drew /\ Len(ret.plays) = 2
    /\ active_card \in Range(DeckOfStep)

\* C23: at the end of every conduct_turn step at most one card of the game
\* has active = True, the card that is active_card, and the card that was
\* the active card before the step and is not any more has active = False
C23_OneActiveCard ==
    Stepped =>
        /\ Cardinality(active) <= 1
        /\ active \subseteq {active_card}
        /\ prev.active_card # active_card => prev.active_card \notin active

\* the melded sets of the players ps, one player after the other
RECURSIVE MeldsOf(_)
MeldsOf(ps) ==
    IF ps = <<>> THEN <<>> ELSE Head(ps).melded_sets \o MeldsOf(Tail(ps))

\* the list s begins with the list r
BeginsWith(s, r) == Len(r) <= Len(s) /\ SubSeq(s, 1, Len(r)) = r

\* C27: at the end of every conduct_turn step that does not return 'win'
\* faceup_sets holds the sets of the players' melded_sets, each as often as
\* the players hold it, and it is the faceup_sets of before the step with
\* the sets melded in the step appended
C27_FaceupMatchesMelds ==
    (Stepped /\ ret.result # "win") =>
        /\ Len(faceup_sets) = Len(MeldsOf(players))
        /\ \A s \in Range(faceup_sets) \cup Range(MeldsOf(players)) :
               Count(faceup_sets, s) = Count(MeldsOf(players), s)
        /\ BeginsWith(faceup_sets, prev.faceup_sets)

\* two players have melded a set each, and both sets are face up
C27_Witness ==
    /\ Stepped /\ ret.result # "win" /\ Len(faceup_sets) >= 2
    /\ \E i, j \in 1 .. Len(players) :
           /\ i # j
           /\ players[i].melded_sets # <<>> /\ players[j].melded_sets # <<>>

---------------------------------------------------------------------------
(* Properties of conduct_turn called step by step (SpecTurns)              *)

\* the fields of a player the exit leaves alone: the hand and the scores
HandAndScores(p) ==
    <<p.hand, p.hand_sets, p.lang_pai, p.hand_score, p.facedown_score,
      p.melded_score, p.total_score>>

\* C22: a conduct_turn step that is not the opening returns 'exit' exactly
\* when the deck and the discards are both empty as it begins; it then
\* leaves the deck, the discards, active_card, current_player, turn_count,
\* faceup_sets and every player's hand and scores as they are, and play_game
\* runs no other step
C22_ExhaustionExit ==
    AfterOpening =>
        /\ ret.result = "exit" <=> (prev.deck = <<>> /\ prev.discards = <<>>)
        /\ ret.result = "exit" =>
               /\ deck = prev.deck /\ discards = prev.discards
               /\ active_card = prev.active_card
               /\ current_player = prev.current_player
               /\ turn_count = prev.turn_count
               /\ faceup_sets = prev.faceup_sets
               /\ \A i \in 1 .. Len(players) :
                      HandAndScores(players[i]) = HandAndScores(prev.players[i])
               /\ pc = "done"

\* a step has returned 'exit' in a game in which a set was melded
C22_Witness ==
    /\ AfterOpening /\ ret.result = "exit"
    /\ prev.deck = <<>> /\ prev.discards = <<>>
    /\ faceup_sets # <<>>

====
